---- MODULE Spec2Model ----
(***************************************************************************)
(* Model of the social_media_outreach add-on: the ai.profile.request       *)
(* model (models/profile_request.py), its log model ai.profile.log and the *)
(* settings it reads (models/res_config_settings.py).                      *)
(*                                                                         *)
(* The ORM works inside a database transaction: `requests` and `logs` are  *)
(* what the running call sees (cache and uncommitted writes);              *)
(* `db_requests` and `db_logs` are what is committed, which is what every  *)
(* other viewer sees.  A call that returns is committed by the host, a     *)
(* call that raises is rolled back by the host.                            *)
(***************************************************************************)
EXTENDS Integers, Sequences, FiniteSets, TLC

VARIABLES
    config,         \* ir.config_parameter values of this add-on
    settings,       \* `self` of the running action_test_connection: the settings form
    requests,       \* ai.profile.request rows as the running call sees them
    logs,           \* ai.profile.log rows as the running call sees them
    db_requests,    \* committed ai.profile.request rows
    db_logs,        \* committed ai.profile.log rows
    now,            \* fields.Datetime.now(): the clock ticks with every call of the user
    pc,             \* position of the running call ("idle": none)
    batch,          \* `self` of action_send_now: the records, in order
    idx,            \* position of `record` in the batch (1-based)
    error_msg,      \* str(e) of the exception caught at line 230
    waited,         \* local `waited` of _call_openai_assistant
    sleeps,         \* number of time.sleep(poll_interval) calls of this run
    polls,          \* number of status requests of this run
    run_status,     \* local `status` of _call_openai_assistant (line 387)
    nonterminal,    \* number of polls of this run that saw no terminal status
    http,           \* HTTP requests issued for the current record, in order
                    \* (the status request once: `polls` counts its repeats)
    response_text,  \* return value of _call_openai_assistant
    status_msg,     \* local `status_msg` of action_send_now
    data_list,      \* local `data_list` of _call_openai_assistant (line 411)
    wh_resp,        \* answer to the webhook request of line 182 ("": none made)
    outcome,        \* how the last call of the user ended ("ok" or the error)
    snap,           \* rows as they were when the running call started
    other           \* the call of a second worker that waits while this one runs

vars == <<config, settings, requests, logs, db_requests, db_logs, now, pc, batch, idx,
          error_msg, waited, sleeps, polls, run_status, nonterminal, http,
          response_text, status_msg, data_list, wh_resp, outcome, snap, other>>

locals == <<error_msg, waited, sleeps, polls, run_status, nonterminal, http, response_text,
           status_msg, data_list, wh_resp>>

poll_locals == <<waited, sleeps, polls, run_status, nonterminal>>

-----------------------------------------------------------------------------
(* Bounds of the model *)

MaxTime == 3

(* Constants of the program *)

max_wait_seconds == 60
poll_interval == 3

URLs == {"u1"}
Keys == {"", "sk-key"}
AssistantIds == {"", "asst_1"}
WebhookUrls == {"", "https://hook"}
Models == {"", "gpt-4o"}
ApiBases == {"", "https://proxy/v1"}

(* The defaults of assistant_model and assistant_api_base *)
DefaultModel == "gpt-5.1"
DefaultApiBase == "https://api.openai.com/v1"

-----------------------------------------------------------------------------
(* str() of the small naturals the program formats into messages *)

Digit == <<"0", "1", "2", "3", "4", "5", "6", "7", "8", "9">>

RECURSIVE str(_)
str(n) == IF n < 10 THEN Digit[n + 1] ELSE str(n \div 10) \o Digit[(n % 10) + 1]

-----------------------------------------------------------------------------
(* Replies of the assistant: a text is a sequence of tokens.  "{" and "}"  *)
(* are braces, "w" is prose, "7" is a JSON number, the other tokens are    *)
(* key:value members of a JSON object.                                     *)

Members == {"display_name:Acme", "status:ok", "status:200", "profile_url:u1", "brand:B"}

MemberKey(tok) ==
    CASE tok = "display_name:Acme" -> "display_name"
      [] tok = "status:ok" -> "status"
      [] tok = "status:200" -> "status"
      [] tok = "profile_url:u1" -> "profile_url"
      [] tok = "brand:B" -> "brand"
      [] OTHER -> ""

MemberVal(tok) ==
    CASE tok = "display_name:Acme" -> "Acme"
      [] tok = "status:ok" -> "ok"
      [] tok = "status:200" -> "200"
      [] tok = "profile_url:u1" -> "u1"
      [] tok = "brand:B" -> "B"
      [] OTHER -> ""

(* The Python type of a member's value: "status:200" is the JSON number    *)
(* 200, an int, whose str() MemberVal gives; the others are strings.       *)
MemberType(tok) == IF tok = "status:200" THEN "int" ELSE "str"

ReplyTexts ==
    { <<>>,
      <<"w">>,
      <<"{", "display_name:Acme", "}">> }

(* json.loads: kind "dict" with the members, kind "value" for a JSON value *)
(* that is no object, kind "error" for JSONDecodeError.                    *)
json_loads(text) ==
    IF text = <<"7">>
    THEN [kind |-> "value", members |-> {}]
    ELSE IF /\ Len(text) >= 2
            /\ text[1] = "{"
            /\ text[Len(text)] = "}"
            /\ \A i \in 2..(Len(text) - 1) : text[i] \in Members
         THEN [kind |-> "dict", members |-> {text[i] : i \in 2..(Len(text) - 1)}]
         ELSE [kind |-> "error", members |-> {}]

(* re.search(r'(\{.*\})', text, re.DOTALL): the span from the first "{"   *)
(* to the last "}" after it; <<>> when there is no match.                 *)
re_search(text) ==
    LET opens == {i \in 1..Len(text) : text[i] = "{"}
        first == IF opens = {} THEN 0
                 ELSE CHOOSE i \in opens : \A j \in opens : i <= j
        closes == {i \in 1..Len(text) : text[i] = "}" /\ i > first}
        last == IF closes = {} THEN 0
                ELSE CHOOSE i \in closes : \A j \in closes : j <= i
    IN  IF first = 0 \/ last = 0 THEN <<>> ELSE SubSeq(text, first, last)

(* The parse error not recorded *)
parse_reply_silent(text) ==
    LET direct == json_loads(text)
        block == re_search(text)
        inner == json_loads(block)
    IN  [parsed_json |-> IF direct.kind # "error" THEN direct
                         ELSE IF block # <<>> /\ inner.kind # "error" THEN inner
                              ELSE [kind |-> "none", members |-> {}],
         parse_error |-> ""]

(* Lines 143-164: parsed_json and parse_error of a reply text *)
parse_reply(text) ==
    LET direct == json_loads(text)
        block == re_search(text)
        inner == json_loads(block)
    IN  IF direct.kind # "error"
        THEN [parsed_json |-> direct, parse_error |-> ""]
        ELSE IF block # <<>>
             THEN IF inner.kind # "error"
                  THEN [parsed_json |-> inner, parse_error |-> ""]
                  ELSE [parsed_json |-> [kind |-> "none", members |-> {}],
                        parse_error |-> "Regex found block but failed to parse"]
             ELSE [parsed_json |-> [kind |-> "none", members |-> {}],
                   parse_error |-> "No JSON object found in response"]

(* dict.get(key) or "" *)
dict_get(parsed, key) ==
    LET hits == {m \in parsed.members : MemberKey(m) = key}
    IN  IF hits = {} THEN "" ELSE MemberVal(CHOOSE m \in hits : TRUE)

(* type(dict.get(key) or "") *)
dict_get_type(parsed, key) ==
    LET hits == {m \in parsed.members : MemberKey(m) = key}
    IN  IF hits = {} THEN "str" ELSE MemberType(CHOOSE m \in hits : TRUE)

-----------------------------------------------------------------------------
(* Records *)

NewRequest(url, img) ==
    [profile_url |-> url, profile_image |-> img, status |-> "draft",
     last_profile_name |-> "", last_response_status |-> "", last_sent_at |-> 0]

(* The constraint left out *)
check_url_or_image_off(rec) == TRUE

(* @api.constrains('profile_url', 'profile_image'): TRUE when the record   *)
(* passes, FALSE when the UserError is raised.                             *)
check_url_or_image(rec) == ~(rec.profile_url = "" /\ ~rec.profile_image)

(* The row written twice *)
log_create_twice(ls, vals) == Append(Append(ls, vals), vals)

(* ai.profile.log create(): the new row gets the next id *)
log_create(ls, vals) == Append(ls, vals)

(* The commit left out *)
cr_commit_dropped(committed, current) == committed

(* self.env.cr.commit(): the committed rows become the rows of the call *)
cr_commit(committed, current) == current

(* A search that finds nothing *)
duplicate_log_never(ls, url) == 0

(* The search made among the failed rows *)
duplicate_log_failed(ls, url) ==
    LET hits == {i \in 1..Len(ls) : ls[i].profile_url = url /\ ls[i].status = "failed"}
    IN  IF hits = {} THEN 0 ELSE CHOOSE i \in hits : \A j \in hits : j <= i

(* ai.profile.log search([profile_url = url, status = success],            *)
(* limit=1, order="id desc"): the id of the row found, 0 for none.         *)
duplicate_log(ls, url) ==
    LET hits == {i \in 1..Len(ls) : ls[i].profile_url = url /\ ls[i].status = "success"}
    IN  IF hits = {} THEN 0 ELSE CHOOSE i \in hits : \A j \in hits : j <= i

(* The assistant ID not looked at *)
not_configured_key_only(cfg) == cfg.api_key = ""

(* `if not api_key or not assistant_id` *)
not_configured(cfg) == cfg.api_key = "" \/ cfg.assistant_id = ""

NoSnap == [requests |-> <<>>, logs |-> <<>>]

(* A res.config.settings record: the values entered in the settings form *)
Settings(key, assistant, model, base) ==
    [assistant_openai_api_key |-> key, assistant_id |-> assistant,
     assistant_model |-> model, assistant_api_base |-> base]

(* No action_test_connection is running *)
NoSettings == Settings("", "", "", "")

(* A worker that runs no call: the position and the locals of Init *)
NoCall ==
    [pc |-> "idle", batch |-> <<>>, idx |-> 0, outcome |-> "ok", snap |-> NoSnap,
     error_msg |-> "", waited |-> 0, sleeps |-> 0, polls |-> 0, run_status |-> "",
     nonterminal |-> 0, http |-> <<>>, response_text |-> <<>>, status_msg |-> "",
     data_list |-> <<>>, wh_resp |-> ""]

InitLocals ==
    /\ error_msg = ""
    /\ waited = 0
    /\ sleeps = 0
    /\ polls = 0
    /\ run_status = ""
    /\ nonterminal = 0
    /\ http = <<>>
    /\ response_text = <<>>
    /\ status_msg = ""
    /\ data_list = <<>>
    /\ wh_resp = ""

(* The locals of the poll loop go out of scope *)
ResetPoll ==
    /\ waited' = 0
    /\ sleeps' = 0
    /\ polls' = 0
    /\ run_status' = ""
    /\ nonterminal' = 0

ResetLocals ==
    /\ error_msg' = ""
    /\ ResetPoll
    /\ http' = <<>>
    /\ response_text' = <<>>
    /\ status_msg' = ""
    /\ data_list' = <<>>
    /\ wh_resp' = ""

Init ==
    /\ config \in [api_key : Keys, assistant_id : AssistantIds, webhook_url : WebhookUrls,
                   assistant_model : {DefaultModel}, assistant_api_base : {DefaultApiBase}]
    /\ settings = NoSettings
    /\ other = NoCall
    /\ requests = <<>>
    /\ logs = <<>>
    /\ db_requests = <<>>
    /\ db_logs = <<>>
    /\ now = 0
    /\ pc = "idle"
    /\ batch = <<>>
    /\ idx = 0
    /\ outcome = "ok"
    /\ snap = NoSnap
    /\ InitLocals

-----------------------------------------------------------------------------
(* The form: create and write of ai.profile.request, each its own call    *)
(* and transaction.  A record that fails the constraint is not stored.     *)

create(url, img) ==
    /\ pc = "idle"
    /\ now < MaxTime
    /\ now' = now + 1
    /\ IF check_url_or_image(NewRequest(url, img))
       THEN /\ requests' = Append(requests, NewRequest(url, img))
            /\ db_requests' = Append(db_requests, NewRequest(url, img))
            /\ outcome' = "ok"
       ELSE /\ UNCHANGED <<requests, db_requests>>
            /\ outcome' = "UserError: Please provide either a Profile URL or a Profile Image."
    /\ UNCHANGED <<other, config, settings, logs, db_logs, pc, batch, idx, snap, locals>>

write(r, url, img) ==
    LET rec == [requests[r] EXCEPT !.profile_url = url, !.profile_image = img]
    IN  /\ pc = "idle"
        /\ now < MaxTime
        /\ now' = now + 1
        /\ r \in 1..Len(requests)
        /\ rec # requests[r]
        /\ IF check_url_or_image(rec)
           THEN /\ requests' = [requests EXCEPT ![r] = rec]
                /\ db_requests' = [db_requests EXCEPT ![r] = rec]
                /\ outcome' = "ok"
           ELSE /\ UNCHANGED <<requests, db_requests>>
                /\ outcome' = "UserError: Please provide either a Profile URL or a Profile Image."
        /\ UNCHANGED <<other, config, settings, logs, db_logs, pc, batch, idx, snap, locals>>

(* Lines 49-67 of res_config_settings.py: the four set_param calls *)
set_param_values(cfg, form) ==
    [cfg EXCEPT !.api_key = form.assistant_openai_api_key,
                !.assistant_id = form.assistant_id,
                !.assistant_model = IF form.assistant_model # ""
                                    THEN form.assistant_model ELSE DefaultModel,
                !.assistant_api_base = IF form.assistant_api_base # ""
                                       THEN form.assistant_api_base ELSE DefaultApiBase]

(* The settings form saved: ResConfigSettings.set_values *)
set_values(form) ==
    /\ pc = "idle"
    /\ now < MaxTime
    /\ now' = now + 1
    /\ config' = set_param_values(config, form)
    /\ config' # config
    /\ outcome' = "ok"
    /\ UNCHANGED <<other, settings, requests, logs, db_requests, db_logs, pc, batch, idx, snap,
                   locals>>

-----------------------------------------------------------------------------
(* action_send_now *)

record == batch[idx]

(* Sequences of distinct existing records: the recordset `self` *)
Batches ==
    LET ids == 1..Len(requests)
        seqs == UNION {[1..n -> ids] : n \in 0..Len(requests)}
    IN  {b \in seqs : \A i, j \in 1..Len(b) : b[i] = b[j] => i = j}

(* The button is pressed: the call starts with a fresh transaction *)
action_send_now(b) ==
    /\ pc = "idle"
    /\ b \in Batches
    /\ now < MaxTime
    /\ now' = now + 1
    /\ pc' = "loop"
    /\ batch' = b
    /\ idx' = 1
    /\ snap' = [requests |-> requests, logs |-> logs]
    /\ outcome' = "running"
    /\ ResetLocals
    /\ UNCHANGED <<other, config, settings, requests, logs, db_requests, db_logs>>

(* Lines 90-96: the configuration is missing *)
raise_not_configured ==
    /\ pc = "loop"
    /\ idx <= Len(batch)
    /\ not_configured(config)
    /\ pc' = "raised"
    /\ outcome' = "UserError: OpenAI Assistant is not configured."
    /\ UNCHANGED <<other, config, settings, requests, logs, db_requests, db_logs, now, batch, idx, snap, locals>>

(* The row of a duplicate that cites the request itself *)
duplicate_vals_cites_self(r, rec, dup, t) ==
    [request_id |-> r,
     profile_name |-> dup.profile_name,
     brand |-> dup.brand,
     profile_url |-> rec.profile_url,
     status |-> "failed",
     message |-> "Duplicate found. Previously processed request ID " \o str(r),
     response_json |-> <<>>,
     sent_at |-> t]

(* The row of a duplicate written as a success *)
duplicate_vals_success(r, rec, dup, t) ==
    [request_id |-> r,
     profile_name |-> dup.profile_name,
     brand |-> dup.brand,
     profile_url |-> rec.profile_url,
     status |-> "success",
     message |-> "Duplicate found. Previously processed request ID " \o str(dup.request_id),
     response_json |-> <<>>,
     sent_at |-> t]

(* Lines 117-126: the log row of a duplicate *)
duplicate_vals(r, rec, dup, t) ==
    [request_id |-> r,
     profile_name |-> dup.profile_name,
     brand |-> dup.brand,
     profile_url |-> rec.profile_url,
     status |-> "failed",
     message |-> "Duplicate found. Previously processed request ID " \o str(dup.request_id),
     response_json |-> <<>>,
     sent_at |-> t]

(* Lines 101-128: the URL was already processed *)
skip_duplicate ==
    /\ pc = "loop"
    /\ idx <= Len(batch)
    /\ ~not_configured(config)
    /\ requests[record].profile_url # ""
    /\ duplicate_log(logs, requests[record].profile_url) # 0
    /\ LET dup == logs[duplicate_log(logs, requests[record].profile_url)]
       IN  /\ requests' = [requests EXCEPT ![record] =
                              [@ EXCEPT !.status = "failed",
                                        !.last_response_status = "Duplication: URL already processed.",
                                        !.last_sent_at = now]]
           /\ logs' = log_create(logs, duplicate_vals(record, requests[record], dup, now))
    /\ idx' = idx + 1
    /\ ResetLocals
    /\ UNCHANGED <<other, config, settings, db_requests, db_logs, now, pc, batch, snap, outcome>>

(* The status left as it was *)
sending_write_forgotten(rec) == rec

(* Line 134: record.status = "sending" *)
sending_write(rec) == [rec EXCEPT !.status = "sending"]

(* Lines 130-135: status `sending`, committed *)
mark_sending ==
    /\ pc = "loop"
    /\ idx <= Len(batch)
    /\ ~not_configured(config)
    /\ \/ requests[record].profile_url = ""
       \/ duplicate_log(logs, requests[record].profile_url) = 0
    /\ requests' = [requests EXCEPT ![record] = sending_write(@)]
    /\ db_requests' = cr_commit(db_requests, requests')
    /\ db_logs' = cr_commit(db_logs, logs)
    /\ pc' = IF requests[record].profile_image THEN "upload" ELSE "thread"
    /\ ResetLocals
    /\ UNCHANGED <<other, config, settings, logs, now, batch, idx, snap, outcome>>

-----------------------------------------------------------------------------
(* _call_openai_assistant: one action per HTTP request *)

(* An exception leaves the call for the handler at line 230 *)
Fail(msg) ==
    /\ pc' = "except"
    /\ error_msg' = msg
    /\ ResetPoll

(* Lines 288-316: POST {base}/files *)
upload_image(resp) ==
    /\ pc = "upload"
    /\ http' = Append(http, "POST /files")
    /\ IF resp = "ok"
       THEN /\ pc' = "thread"
            /\ UNCHANGED <<error_msg, poll_locals>>
       ELSE Fail("Error preparing image for analysis: Image upload failed")
    /\ UNCHANGED <<other, config, settings, requests, logs, db_requests, db_logs, now, batch, idx, snap,
                   outcome, response_text, status_msg, data_list, wh_resp>>

(* Lines 321-344: POST {base}/threads *)
create_thread(resp) ==
    /\ pc = "thread"
    /\ http' = Append(http, "POST /threads")
    /\ CASE resp = "ok" -> pc' = "run" /\ UNCHANGED <<error_msg, poll_locals>>
         [] resp = "http_error" -> Fail("Failed to create Assistant thread. HTTP 500")
         [] resp = "no_id" -> Fail("Assistant thread ID missing in API response.")
    /\ UNCHANGED <<other, config, settings, requests, logs, db_requests, db_logs, now, batch, idx, snap,
                   outcome, response_text, status_msg, data_list, wh_resp>>

(* A failed run start tried again *)
start_run_retry(resp) ==
    /\ pc = "run"
    /\ http' = Append(http, "POST /runs")
    /\ pc' = IF resp = "ok" THEN "poll" ELSE "run"
    /\ UNCHANGED <<error_msg, poll_locals>>
    /\ UNCHANGED <<other, config, settings, requests, logs, db_requests, db_logs, now, batch, idx, snap,
                   outcome, response_text, status_msg, data_list, wh_resp>>

(* Lines 346-364: POST {base}/threads/{thread_id}/runs *)
start_run(resp) ==
    /\ pc = "run"
    /\ http' = Append(http, "POST /runs")
    /\ CASE resp = "ok" -> pc' = "poll" /\ UNCHANGED <<error_msg, poll_locals>>
         [] resp = "http_error" -> Fail("Failed to start Assistant run. HTTP 500")
         [] resp = "no_id" -> Fail("Assistant run ID missing in API response.")
    /\ UNCHANGED <<other, config, settings, requests, logs, db_requests, db_logs, now, batch, idx, snap,
                   outcome, response_text, status_msg, data_list, wh_resp>>

PostResponses == {"ok", "http_error", "no_id"}

(* "in_progress" stands for every status the loop does not name *)
RunStatuses ==
    {"in_progress", "completed", "requires_action", "failed", "cancelled", "expired"}

TerminalStatuses == {"completed", "requires_action", "failed", "cancelled", "expired"}

PollResponses == RunStatuses \cup {"http_error"}

(* The sleep moved behind the status checks *)
poll_iteration_sleep_last(w, resp) ==
    LET ends == resp \in {"http_error", "completed", "requires_action",
                          "failed", "cancelled", "expired"}
        w2 == IF ends THEN w ELSE w + poll_interval
    IN  [waited |-> w2,
         slept |-> IF ends THEN 0 ELSE 1,
         next |-> CASE resp = "http_error" -> "except"
                    [] resp \in {"completed", "requires_action"} -> "messages"
                    [] resp \in {"failed", "cancelled", "expired"} -> "except"
                    [] w2 >= max_wait_seconds -> "except"
                    [] OTHER -> "poll",
         error |-> CASE resp = "http_error" -> "Failed to poll Assistant run. HTTP 500"
                     [] resp \in {"completed", "requires_action"} -> ""
                     [] resp \in {"failed", "cancelled", "expired"} ->
                            "Assistant run ended with status: " \o resp
                     [] w2 >= max_wait_seconds ->
                            "Assistant run timeout after " \o str(w2) \o " seconds"
                     [] OTHER -> ""]

(* The ceiling compared with > *)
poll_iteration_late_timeout(w, resp) ==
    LET w2 == w + poll_interval
    IN  [waited |-> w2,
         slept |-> 1,
         next |-> CASE resp = "http_error" -> "except"
                    [] resp \in {"completed", "requires_action"} -> "messages"
                    [] resp \in {"failed", "cancelled", "expired"} -> "except"
                    [] w2 > max_wait_seconds -> "except"
                    [] OTHER -> "poll",
         error |-> CASE resp = "http_error" -> "Failed to poll Assistant run. HTTP 500"
                     [] resp \in {"completed", "requires_action"} -> ""
                     [] resp \in {"failed", "cancelled", "expired"} ->
                            "Assistant run ended with status: " \o resp
                     [] w2 > max_wait_seconds ->
                            "Assistant run timeout after " \o str(w2) \o " seconds"
                     [] OTHER -> ""]

(* The ceiling checked before the status *)
poll_iteration_timeout_first(w, resp) ==
    LET w2 == w + poll_interval
    IN  [waited |-> w2,
         slept |-> 1,
         next |-> CASE resp = "http_error" -> "except"
                    [] w2 >= max_wait_seconds -> "except"
                    [] resp \in {"completed", "requires_action"} -> "messages"
                    [] resp \in {"failed", "cancelled", "expired"} -> "except"
                    [] OTHER -> "poll",
         error |-> CASE resp = "http_error" -> "Failed to poll Assistant run. HTTP 500"
                     [] w2 >= max_wait_seconds ->
                            "Assistant run timeout after " \o str(w2) \o " seconds"
                     [] resp \in {"completed", "requires_action"} -> ""
                     [] resp \in {"failed", "cancelled", "expired"} ->
                            "Assistant run ended with status: " \o resp
                     [] OTHER -> ""]

(* Lines 373-394: one iteration of `while True` with `waited` = w before   *)
(* it and `resp` the answer to the status request: the new `waited`, the   *)
(* sleeps made, and where the iteration leaves the loop to.                *)
poll_iteration(w, resp) ==
    LET w2 == w + poll_interval
    IN  [waited |-> w2,
         slept |-> 1,
         next |-> CASE resp = "http_error" -> "except"
                    [] resp \in {"completed", "requires_action"} -> "messages"
                    [] resp \in {"failed", "cancelled", "expired"} -> "except"
                    [] w2 >= max_wait_seconds -> "except"
                    [] OTHER -> "poll",
         error |-> CASE resp = "http_error" -> "Failed to poll Assistant run. HTTP 500"
                     [] resp \in {"completed", "requires_action"} -> ""
                     [] resp \in {"failed", "cancelled", "expired"} ->
                            "Assistant run ended with status: " \o resp
                     [] w2 >= max_wait_seconds ->
                            "Assistant run timeout after " \o str(w2) \o " seconds"
                     [] OTHER -> ""]

(* Lines 373-394: sleep, GET {base}/threads/{thread_id}/runs/{run_id} *)
poll_run(resp) ==
    LET it == poll_iteration(waited, resp)
    IN  /\ pc = "poll"
        /\ http' = IF polls = 0 THEN Append(http, "GET /runs") ELSE http
        /\ IF it.next = "except"
           THEN /\ pc' = "except"
                /\ error_msg' = it.error
                /\ waited' = 0
                /\ sleeps' = 0
                /\ polls' = 0
                /\ nonterminal' = 0
                /\ run_status' = IF resp \in RunStatuses THEN resp ELSE run_status
           ELSE /\ pc' = it.next
                /\ waited' = it.waited
                /\ sleeps' = sleeps + it.slept
                /\ polls' = polls + 1
                /\ run_status' = resp
                /\ nonterminal' = IF resp \in RunStatuses \ TerminalStatuses
                                  THEN nonterminal + 1 ELSE nonterminal
                /\ UNCHANGED error_msg
        /\ UNCHANGED <<other, config, settings, requests, logs, db_requests, db_logs, now, batch, idx, snap,
                       outcome, response_text, status_msg, data_list, wh_resp>>

(* The message list of GET {base}/threads/{thread_id}/messages *)
TextPart(t) == [type |-> "text", value |-> t]
Message(role, content) == [role |-> role, content |-> content]

MessageLists ==
    {<<>>} \cup {<<Message("assistant", <<TextPart(t)>>)>> : t \in ReplyTexts}

(* The last text part taken *)
first_text_last(contents) ==
    LET texts == {i \in 1..Len(contents) : contents[i].type = "text"}
    IN  IF texts = {} THEN [found |-> FALSE, value |-> <<>>]
        ELSE [found |-> TRUE,
              value |-> contents[CHOOSE i \in texts : \A j \in texts : j <= i].value]

(* Lines 419-422: the first text part of a message; found FALSE for none *)
RECURSIVE first_text(_)
first_text(contents) ==
    IF contents = <<>> THEN [found |-> FALSE, value |-> <<>>]
    ELSE IF Head(contents).type = "text"
         THEN [found |-> TRUE, value |-> Head(contents).value]
         ELSE first_text(Tail(contents))

(* Lines 415-425: the reply text of a message list *)
RECURSIVE reply_text(_)
reply_text(msgs) ==
    IF msgs = <<>> THEN <<>>
    ELSE IF Head(msgs).role = "assistant" /\ first_text(Head(msgs).content).found
         THEN first_text(Head(msgs).content).value
         ELSE reply_text(Tail(msgs))

(* Lines 396-425: GET {base}/threads/{thread_id}/messages *)
fetch_messages(ok, msgs) ==
    /\ pc = "messages"
    /\ http' = Append(http, "GET /messages")
    /\ IF ok
       THEN /\ pc' = "webhook"
            /\ data_list' = msgs
            /\ response_text' = reply_text(msgs)
            /\ UNCHANGED error_msg
            /\ ResetPoll
       ELSE /\ Fail("Failed to fetch Assistant messages. HTTP 500")
            /\ UNCHANGED <<response_text, data_list>>
    /\ UNCHANGED <<other, config, settings, requests, logs, db_requests, db_logs, now, batch, idx, snap,
                   outcome, status_msg, wh_resp>>

-----------------------------------------------------------------------------
(* action_send_now after the reply *)

is_dict(text) == parse_reply(text).parsed_json.kind = "dict"

(* Lines 166-173 *)
reply_profile_name(text) ==
    IF is_dict(text)
    THEN IF dict_get(parse_reply(text).parsed_json, "display_name") # ""
         THEN dict_get(parse_reply(text).parsed_json, "display_name")
         ELSE dict_get(parse_reply(text).parsed_json, "profile_name")
    ELSE ""

reply_status_msg(text) ==
    IF is_dict(text) /\ dict_get(parse_reply(text).parsed_json, "status") # ""
    THEN dict_get(parse_reply(text).parsed_json, "status")
    ELSE "OK"

(* type(status_msg) after line 173: the "status" of the reply may be a    *)
(* JSON number.  The variable status_msg holds str() of the value, which   *)
(* is what the Char and Text fields store.                                 *)
reply_status_type(text) ==
    IF is_dict(text) THEN dict_get_type(parse_reply(text).parsed_json, "status") ELSE "str"

WebhookResponses == {"200", "500", "exception"}

(* The webhook called twice *)
send_webhook_twice(resp) ==
    /\ pc = "webhook"
    /\ is_dict(response_text)
    /\ config.webhook_url # ""
    /\ http' = Append(Append(http, "GET webhook"), "GET webhook")
    /\ wh_resp' = resp
    /\ data_list' = <<>>
    /\ status_msg' = reply_status_msg(response_text)
    /\ pc' = "finish"
    /\ UNCHANGED <<error_msg, poll_locals>>
    /\ UNCHANGED <<other, config, settings, requests, logs, db_requests, db_logs, now, batch, idx,
                   snap, outcome, response_text>>

(* Lines 178-190: the webhook is configured and the reply is an object.    *)
(* `status_msg += ...` on an int raises TypeError, at lines 184 and 186    *)
(* inside the inner try and again at line 189 inside its handler, so the   *)
(* error reaches the handler of line 230.                                  *)
send_webhook(resp) ==
    /\ pc = "webhook"
    /\ is_dict(response_text)
    /\ config.webhook_url # ""
    /\ http' = Append(http, "GET webhook")
    /\ wh_resp' = resp
    /\ data_list' = <<>>
    /\ IF reply_status_type(response_text) = "str"
       THEN /\ status_msg' = reply_status_msg(response_text) \o
                                (CASE resp = "200" -> " | Webhook Sent"
                                   [] resp = "500" -> " | Webhook Failed (500)"
                                   [] resp = "exception" ->
                                          " | Webhook Error: Connection refused")
            /\ pc' = "finish"
            /\ UNCHANGED <<error_msg, poll_locals>>
       ELSE /\ Fail("unsupported operand type(s) for +=: 'int' and 'str'")
            /\ UNCHANGED status_msg
    /\ UNCHANGED <<other, config, settings, requests, logs, db_requests, db_logs, now, batch, idx,
                   snap, outcome, response_text>>

(* Lines 166-169, 191-193: no webhook request *)
skip_webhook ==
    /\ pc = "webhook"
    /\ ~(is_dict(response_text) /\ config.webhook_url # "")
    /\ status_msg' = reply_status_msg(response_text)
    /\ data_list' = <<>>
    /\ pc' = "finish"
    /\ UNCHANGED <<other, config, settings, requests, logs, db_requests, db_logs, now, batch, idx,
                   snap, outcome, error_msg, poll_locals, http, response_text, wh_resp>>

(* Lines 201-228: the log row of a reply *)
success_vals(r, rec, text, msg, t) ==
    LET parsed == parse_reply(text)
        extracted_url == IF is_dict(text) THEN dict_get(parsed.parsed_json, "profile_url") ELSE ""
    IN  [request_id |-> r,
         profile_name |-> reply_profile_name(text),
         brand |-> IF is_dict(text) THEN dict_get(parsed.parsed_json, "brand") ELSE "",
         profile_url |-> IF rec.profile_url # "" THEN rec.profile_url ELSE extracted_url,
         status |-> "success",
         message |-> IF parsed.parse_error # ""
                     THEN msg \o " | JSON parse error: " \o parsed.parse_error
                     ELSE msg,
         response_json |-> text,
         sent_at |-> t]

(* Lines 195-228: the reply is recorded, the loop goes on *)
record_success ==
    /\ pc = "finish"
    /\ requests' = [requests EXCEPT ![record] =
                       [@ EXCEPT !.last_profile_name = reply_profile_name(response_text),
                                 !.last_response_status = status_msg,
                                 !.last_sent_at = now,
                                 !.status = "success"]]
    /\ logs' = log_create(logs, success_vals(record, requests[record], response_text,
                                             status_msg, now))
    /\ pc' = "loop"
    /\ idx' = idx + 1
    /\ UNCHANGED <<other, config, settings, db_requests, db_logs, now, batch, snap, outcome, locals>>

(* Lines 239-250: the log row of a failed attempt *)
failure_vals(r, rec, msg, t) ==
    [request_id |-> r,
     profile_name |-> "",
     brand |-> "",
     profile_url |-> rec.profile_url,
     status |-> "failed",
     message |-> msg,
     response_json |-> <<>>,
     sent_at |-> t]

(* The status not set *)
failure_write_keeps_status(rec, msg, t) ==
    [rec EXCEPT !.last_response_status = msg, !.last_sent_at = t]

(* Lines 234-236: the request after a failed attempt *)
failure_write(rec, msg, t) ==
    [rec EXCEPT !.status = "failed", !.last_response_status = msg, !.last_sent_at = t]

(* Lines 230-257: the handler of every exception of the try block *)
handle_exception ==
    /\ pc = "except"
    /\ requests' = [requests EXCEPT ![record] = failure_write(@, error_msg, now)]
    /\ logs' = log_create(logs, failure_vals(record, requests[record], error_msg, now))
    /\ pc' = "raised"
    /\ outcome' = "UserError: Failed to contact the Assistant."
    /\ UNCHANGED <<other, config, settings, db_requests, db_logs, now, batch, idx, snap, locals>>

-----------------------------------------------------------------------------
(* The host ends the call *)

(* The loop is over and the method returns: the host commits *)
return_commit ==
    /\ pc = "loop"
    /\ idx > Len(batch)
    /\ db_requests' = requests
    /\ db_logs' = logs
    /\ pc' = "idle"
    /\ outcome' = "ok"
    /\ batch' = <<>>
    /\ idx' = 0
    /\ snap' = NoSnap
    /\ ResetLocals
    /\ UNCHANGED <<other, config, settings, requests, logs, now>>

(* The UserError leaves the method: the host rolls the transaction back *)
raise_rollback ==
    /\ pc = "raised"
    /\ requests' = db_requests
    /\ logs' = db_logs
    /\ pc' = "idle"
    /\ batch' = <<>>
    /\ idx' = 0
    /\ snap' = NoSnap
    /\ ResetLocals
    /\ UNCHANGED <<other, config, settings, db_requests, db_logs, now, outcome>>

-----------------------------------------------------------------------------

Next ==
    \/ \E url \in URLs \cup {""}, img \in BOOLEAN : create(url, img)
    \/ \E r \in 1..Len(requests), url \in URLs \cup {""}, img \in BOOLEAN : write(r, url, img)
    \/ \E key \in Keys, assistant \in AssistantIds :
          set_values(Settings(key, assistant, "", ""))
    \/ \E b \in Batches : action_send_now(b)
    \/ raise_not_configured
    \/ skip_duplicate
    \/ mark_sending
    \/ \E resp \in {"ok", "http_error"} : upload_image(resp)
    \/ \E resp \in PostResponses : create_thread(resp)
    \/ \E resp \in PostResponses : start_run(resp)
    \/ \E resp \in PollResponses : poll_run(resp)
    \/ \E ok \in BOOLEAN, msgs \in MessageLists : fetch_messages(ok, msgs)
    \/ \E resp \in WebhookResponses : send_webhook(resp)
    \/ skip_webhook
    \/ record_success
    \/ handle_exception
    \/ return_commit
    \/ raise_rollback

Spec == Init /\ [][Next]_vars

-----------------------------------------------------------------------------
(* The reply of the assistant: one stored request with a URL, the          *)
(* configuration complete, the client answered by message lists and reply  *)
(* texts of every shape the scan of lines 415-422 and the parsing of lines *)
(* 143-173 tell apart.                                                     *)

ImagePart == [type |-> "image_file", value |-> <<>>]

AcmeText == <<"{", "display_name:Acme", "}">>

RichReplyTexts ==
    { <<>>,
      <<"w">>,
      <<"7">>,
      <<"}", "{">>,
      <<"{", "w", "}">>,
      AcmeText,
      <<"w", "{", "display_name:Acme", "status:ok", "}", "w">>,
      <<"{", "status:200", "}">> }

RichMessageLists ==
    {<<Message("assistant", <<TextPart(t)>>)>> : t \in RichReplyTexts}
    \cup
    { <<>>,
      <<Message("user", <<TextPart(AcmeText)>>)>>,
      <<Message("user", <<TextPart(<<"w">>)>>), Message("assistant", <<TextPart(AcmeText)>>)>>,
      <<Message("assistant", <<ImagePart>>)>>,
      <<Message("assistant", <<ImagePart>>), Message("assistant", <<TextPart(AcmeText)>>)>>,
      <<Message("assistant", <<ImagePart, TextPart(AcmeText), TextPart(<<"w">>)>>)>>,
      <<Message("assistant", <<TextPart(<<"w">>)>>), Message("assistant", <<TextPart(AcmeText)>>)>> }

InitReply ==
    /\ config \in [api_key : {"sk-key"}, assistant_id : {"asst_1"}, webhook_url : WebhookUrls,
                   assistant_model : {DefaultModel}, assistant_api_base : {DefaultApiBase}]
    /\ settings = NoSettings
    /\ other = NoCall
    /\ requests = <<NewRequest("u1", FALSE)>>
    /\ logs = <<>>
    /\ db_requests = requests
    /\ db_logs = <<>>
    /\ now = 1
    /\ pc = "idle"
    /\ batch = <<>>
    /\ idx = 0
    /\ outcome = "ok"
    /\ snap = NoSnap
    /\ InitLocals

NextReply ==
    \/ \E b \in Batches : action_send_now(b)
    \/ skip_duplicate
    \/ mark_sending
    \/ \E resp \in {"ok", "http_error"} : create_thread(resp)
    \/ start_run("ok")
    \/ \E resp \in {"completed", "requires_action"} : poll_run(resp)
    \/ \E msgs \in RichMessageLists : fetch_messages(TRUE, msgs)
    \/ \E resp \in WebhookResponses : send_webhook(resp)
    \/ skip_webhook
    \/ record_success
    \/ handle_exception
    \/ return_commit
    \/ raise_rollback

SpecReply == InitReply /\ [][NextReply]_vars

-----------------------------------------------------------------------------
(* The settings screen: the form saved (set_values) and the button         *)
(* "Test Connection" (action_test_connection).                             *)

Forms ==
    {Settings(key, assistant, model, base) :
        key \in Keys, assistant \in AssistantIds, model \in Models, base \in ApiBases}

KeyMissing == "UserError: Please enter an OpenAI API Key before testing."
IdMissing == "UserError: Please enter an Assistant ID before testing."
Connected == "Connection Successful!"

(* What GET {api_base}/assistants/{assistant_id} can come to: a status,    *)
(* a 200 whose body is no JSON, a timeout, another network failure.        *)
TestResponses == {"200", "200_no_json", "401", "404", "500", "timeout", "network"}

(* Lines 98-134: the error raised for an answer that is not a good 200.    *)
(* response.json() on a body that is no JSON raises an error that is a     *)
(* RequestException or a plain ValueError, depending on the version of     *)
(* the requests library.                                                   *)
TestErrors(resp) ==
    CASE resp = "200_no_json" -> {"UserError: Connection error: invalid JSON", "ValueError"}
      [] resp = "401" -> {"UserError: Invalid API Key. Please check your credentials."}
      [] resp = "404" -> {"UserError: Assistant ID not found. Please verify the Assistant ID is correct."}
      [] resp = "500" -> {"UserError: Connection failed with status 500"}
      [] resp = "timeout" -> {"UserError: Connection timeout. Please check your internet connection."}
      [] resp = "network" -> {"UserError: Connection error: Connection refused"}

(* The form saved before the request is made *)
action_test_connection_commit_first(form) ==
    /\ pc = "idle"
    /\ now < MaxTime
    /\ now' = now + 1
    /\ CASE form.assistant_openai_api_key = "" ->
               /\ outcome' = KeyMissing
               /\ UNCHANGED <<pc, settings, http, config>>
         [] form.assistant_openai_api_key # "" /\ form.assistant_id = "" ->
               /\ outcome' = IdMissing
               /\ UNCHANGED <<pc, settings, http, config>>
         [] OTHER ->
               /\ pc' = "test"
               /\ settings' = form
               /\ config' = set_param_values(config, form)
               /\ http' = <<"GET /assistants/" \o form.assistant_id>>
               /\ outcome' = "running"
    /\ UNCHANGED <<other, requests, logs, db_requests, db_logs, batch, idx, snap, error_msg,
                   poll_locals, response_text, status_msg, data_list, wh_resp>>

(* Lines 69-95: the button is pressed; without a key or an assistant ID    *)
(* the call raises at once, else the metadata request goes out.            *)
action_test_connection(form) ==
    /\ pc = "idle"
    /\ now < MaxTime
    /\ now' = now + 1
    /\ CASE form.assistant_openai_api_key = "" ->
               /\ outcome' = KeyMissing
               /\ UNCHANGED <<pc, settings, http>>
         [] form.assistant_openai_api_key # "" /\ form.assistant_id = "" ->
               /\ outcome' = IdMissing
               /\ UNCHANGED <<pc, settings, http>>
         [] OTHER ->
               /\ pc' = "test"
               /\ settings' = form
               /\ http' = <<"GET /assistants/" \o form.assistant_id>>
               /\ outcome' = "running"
    /\ UNCHANGED <<other, config, requests, logs, db_requests, db_logs, batch, idx, snap, error_msg,
                   poll_locals, response_text, status_msg, data_list, wh_resp>>

(* Lines 95-134: the answer to the metadata request.  A good 200 saves     *)
(* the form (self.set_values(), line 103) and the call returns; every      *)
(* other answer raises.                                                    *)
test_response(resp) ==
    /\ pc = "test"
    /\ IF resp = "200"
       THEN /\ config' = set_param_values(config, settings)
            /\ outcome' = Connected
       ELSE /\ config' = config
            /\ outcome' \in TestErrors(resp)
    /\ pc' = "idle"
    /\ settings' = NoSettings
    /\ http' = <<>>
    /\ UNCHANGED <<other, requests, logs, db_requests, db_logs, now, batch, idx, snap, error_msg,
                   poll_locals, response_text, status_msg, data_list, wh_resp>>

NextSettings ==
    \/ \E form \in Forms : set_values(form)
    \/ \E form \in Forms : action_test_connection(form)
    \/ \E resp \in TestResponses : test_response(resp)

SpecSettings == Init /\ [][NextSettings]_vars

-----------------------------------------------------------------------------
(* The URL of the log row: two stored requests, one with a URL of its own  *)
(* and one with an image only, the configuration complete, no webhook.     *)
(* The assistant answers with an object that asserts a profile URL or      *)
(* with one that asserts none (lines 206-214).                             *)

UrlText == <<"{", "profile_url:u1", "}">>

UrlMessageLists == {<<Message("assistant", <<TextPart(t)>>)>> : t \in {AcmeText, UrlText}}

InitUrl ==
    /\ config \in [api_key : {"sk-key"}, assistant_id : {"asst_1"}, webhook_url : {""},
                   assistant_model : {DefaultModel}, assistant_api_base : {DefaultApiBase}]
    /\ settings = NoSettings
    /\ other = NoCall
    /\ requests = <<NewRequest("u1", FALSE), NewRequest("", TRUE)>>
    /\ logs = <<>>
    /\ db_requests = requests
    /\ db_logs = <<>>
    /\ now = 0
    /\ pc = "idle"
    /\ batch = <<>>
    /\ idx = 0
    /\ outcome = "ok"
    /\ snap = NoSnap
    /\ InitLocals

NextUrl ==
    \/ \E b \in Batches : action_send_now(b)
    \/ skip_duplicate
    \/ mark_sending
    \/ upload_image("ok")
    \/ \E resp \in {"ok", "http_error"} : create_thread(resp)
    \/ start_run("ok")
    \/ poll_run("completed")
    \/ \E msgs \in UrlMessageLists : fetch_messages(TRUE, msgs)
    \/ skip_webhook
    \/ record_success
    \/ handle_exception
    \/ return_commit
    \/ raise_rollback

SpecUrl == InitUrl /\ [][NextUrl]_vars

-----------------------------------------------------------------------------
(* Two workers: the server runs two action_send_now calls at a time, each  *)
(* in its own worker and its own transaction.  The variables of the call   *)
(* hold the worker that runs; `other` holds the worker that waits.  A      *)
(* worker gives way while it waits for an answer of the assistant (the     *)
(* blocking requests of _call_openai_assistant, all after the commit of    *)
(* line 135), or when its call is over: at these positions it has no       *)
(* uncommitted write.  The worker that goes on opens its transaction with  *)
(* its next statement and then sees the committed rows.                    *)

(* The positions of a call that waits for an answer of the assistant *)
BlockedPcs == {"upload", "thread", "run", "poll", "messages"}

(* The worker that runs *)
Worker ==
    [pc |-> pc, batch |-> batch, idx |-> idx, outcome |-> outcome, snap |-> snap,
     error_msg |-> error_msg, waited |-> waited, sleeps |-> sleeps, polls |-> polls,
     run_status |-> run_status, nonterminal |-> nonterminal, http |-> http,
     response_text |-> response_text, status_msg |-> status_msg,
     data_list |-> data_list, wh_resp |-> wh_resp]

(* The worker that runs gives way to the one that waits *)
switch_worker ==
    /\ pc \in BlockedPcs \cup {"idle"}
    /\ pc # "idle" \/ other.pc # "idle"
    /\ other' = Worker
    /\ pc' = other.pc
    /\ batch' = other.batch
    /\ idx' = other.idx
    /\ outcome' = other.outcome
    /\ snap' = other.snap
    /\ error_msg' = other.error_msg
    /\ waited' = other.waited
    /\ sleeps' = other.sleeps
    /\ polls' = other.polls
    /\ run_status' = other.run_status
    /\ nonterminal' = other.nonterminal
    /\ http' = other.http
    /\ response_text' = other.response_text
    /\ status_msg' = other.status_msg
    /\ data_list' = other.data_list
    /\ wh_resp' = other.wh_resp
    /\ requests' = db_requests
    /\ logs' = db_logs
    /\ UNCHANGED <<config, settings, db_requests, db_logs, now>>

(* Two stored requests with the same URL, the configuration complete, no   *)
(* webhook; each call is for one request, and not for the request of the   *)
(* call that waits.                                                        *)
InitRace ==
    /\ config \in [api_key : {"sk-key"}, assistant_id : {"asst_1"}, webhook_url : {""},
                   assistant_model : {DefaultModel}, assistant_api_base : {DefaultApiBase}]
    /\ settings = NoSettings
    /\ other = NoCall
    /\ requests = <<NewRequest("u1", FALSE), NewRequest("u1", FALSE)>>
    /\ logs = <<>>
    /\ db_requests = requests
    /\ db_logs = <<>>
    /\ now = 1
    /\ pc = "idle"
    /\ batch = <<>>
    /\ idx = 0
    /\ outcome = "ok"
    /\ snap = NoSnap
    /\ InitLocals

NextRace ==
    \/ \E r \in 1..Len(requests) : other.batch # <<r>> /\ action_send_now(<<r>>)
    \/ skip_duplicate
    \/ mark_sending
    \/ \E resp \in {"ok", "http_error"} : create_thread(resp)
    \/ start_run("ok")
    \/ poll_run("completed")
    \/ fetch_messages(TRUE, <<Message("assistant", <<TextPart(AcmeText)>>)>>)
    \/ skip_webhook
    \/ record_success
    \/ handle_exception
    \/ return_commit
    \/ raise_rollback
    \/ switch_worker

SpecRace == InitRace /\ [][NextRace]_vars

-----------------------------------------------------------------------------
(* Properties *)

NotConfigured == "UserError: OpenAI Assistant is not configured."
FailedToContact == "UserError: Failed to contact the Assistant."
Rejected == "UserError: Please provide either a Profile URL or a Profile Image."

(* The positions of action_send_now between the commit at line 135 and    *)
(* the end of the attempt.                                                 *)
AttemptPcs == {"upload", "thread", "run", "poll", "messages", "webhook", "finish", "except"}

(* The call has raised the error of line 252 and the host has not yet     *)
(* ended the transaction.                                                  *)
FatalRaised == pc = "raised" /\ outcome = FailedToContact

TimeoutMsgs == {"Assistant run timeout after " \o str(w) \o " seconds" : w \in 0..99}

(* C1: from the first position at which an HTTP request of a send attempt *)
(* can be issued to the end of the attempt, the committed status of the    *)
(* record is `sending`: the write of line 134 is committed before the      *)
(* first request (image upload or thread creation) goes out.               *)
C1_SendingCommittedFirst ==
    pc \in AttemptPcs =>
        /\ db_requests[record].status = "sending"
        /\ pc \in {"upload", "thread"} \/ http # <<>>

C1_Witness ==
    /\ pc = "run"
    /\ http = <<"POST /threads">>
    /\ db_requests[record].status = "sending"

(* C2: when a step of the assistant call has raised and action_send_now    *)
(* has raised its error, the call has set the record's status to failed    *)
(* and last_response_status to the error text and has created one log row: *)
(* status failed, empty profile_name, the request's profile_url, empty     *)
(* response_json, the error text as message.                               *)
C2_FailureRecorded ==
    /\ pc = "except" => error_msg # "" /\ http # <<>>
    /\ FatalRaised =>
        /\ error_msg # ""
        /\ requests[record].status = "failed"
        /\ requests[record].last_response_status = error_msg
        /\ Len(logs) = Len(db_logs) + 1
        /\ logs[Len(logs)].request_id = record
        /\ logs[Len(logs)].status = "failed"
        /\ logs[Len(logs)].profile_name = ""
        /\ logs[Len(logs)].profile_url = requests[record].profile_url
        /\ logs[Len(logs)].response_json = <<>>
        /\ logs[Len(logs)].message = error_msg

C2_Witness ==
    /\ FatalRaised
    /\ error_msg = "Failed to start Assistant run. HTTP 500"
    /\ requests[record].status = "failed"

(* C3: after action_send_now has raised a fatal assistant error, the      *)
(* committed state of the request is status failed with a committed        *)
(* failure log row of that attempt.                                        *)
C3_FailurePersisted ==
    FatalRaised =>
        /\ db_requests[record].status = "failed"
        /\ \E i \in 1..Len(db_logs) :
              /\ db_logs[i].request_id = record
              /\ db_logs[i].status = "failed"
              /\ db_logs[i].message = error_msg

(* C4: a record reached by the loop whose non-empty profile URL is that of *)
(* a success log row is not sent: no HTTP request, status failed, one new  *)
(* failed log row naming the request id of a matching success row, and     *)
(* the loop goes on with the next record.                                  *)
C4_DuplicateShortCircuit ==
    [][ ( /\ pc = "loop"
          /\ idx <= Len(batch)
          /\ config.api_key # "" /\ config.assistant_id # ""
          /\ requests[record].profile_url # ""
          /\ \E i \in 1..Len(logs) : /\ logs[i].status = "success"
                                     /\ logs[i].profile_url = requests[record].profile_url )
        => ( /\ pc' = "loop"
             /\ idx' = idx + 1
             /\ http' = <<>>
             /\ requests'[record].status = "failed"
             /\ Len(logs') = Len(logs) + 1
             /\ SubSeq(logs', 1, Len(logs)) = logs
             /\ logs'[Len(logs')].request_id = record
             /\ logs'[Len(logs')].status = "failed"
             /\ \E i \in 1..Len(logs) :
                   /\ logs[i].status = "success"
                   /\ logs[i].profile_url = requests[record].profile_url
                   /\ logs'[Len(logs')].message =
                         "Duplicate found. Previously processed request ID "
                            \o str(logs[i].request_id) ) ]_vars

C4_Witness ==
    /\ pc = "loop"
    /\ idx = 3
    /\ batch = <<1, 2>>
    /\ Len(logs) = 2
    /\ logs[1].status = "success"
    /\ logs[2].request_id = 2
    /\ logs[2].message = "Duplicate found. Previously processed request ID 1"
    /\ requests[2].status = "failed"

(* A step that ends the send attempt of a record: the duplicate is         *)
(* skipped, the reply is recorded, or the handler raises.                  *)
EndsAttempt ==
    \/ pc = "loop" /\ pc' = "loop" /\ idx' = idx + 1
    \/ pc = "finish" /\ pc' = "loop"
    \/ pc = "except" /\ pc' = "raised"

(* C5: the step that ends a send attempt adds exactly one log row, of the  *)
(* record sent, and leaves the rows there were as they are; no other step  *)
(* of action_send_now changes the log rows.                                *)
C5_OneLogPerAttempt ==
    [][ pc \notin {"idle", "raised"} =>
          IF EndsAttempt
          THEN /\ Len(logs') = Len(logs) + 1
               /\ SubSeq(logs', 1, Len(logs)) = logs
               /\ logs'[Len(logs')].request_id = record
          ELSE logs' = logs ]_vars

C5_Witness ==
    /\ pc = "loop"
    /\ idx = 3
    /\ Len(logs) = Len(snap.logs) + 2
    /\ logs[Len(logs)].status = "success"
    /\ logs[Len(logs) - 1].status = "success"

(* C6: when a record of a batch has hit a fatal assistant error, the later *)
(* records of the batch are as they were when the call started and have no *)
(* new log row, and the records completed before it are committed as the   *)
(* call left them, with their log rows.                                    *)
C6_BatchAborts ==
    FatalRaised =>
        /\ \A j \in (idx + 1)..Len(batch) :
              /\ requests[batch[j]] = snap.requests[batch[j]]
              /\ db_requests[batch[j]] = snap.requests[batch[j]]
              /\ \A i \in (Len(snap.logs) + 1)..Len(logs) : logs[i].request_id # batch[j]
        /\ \A j \in 1..(idx - 1) :
              /\ requests[batch[j]].status \in {"success", "failed"}
              /\ db_requests[batch[j]] = requests[batch[j]]
              /\ \E i \in (Len(snap.logs) + 1)..Len(db_logs) :
                    /\ db_logs[i].request_id = batch[j]
                    /\ db_logs[i] = logs[i]

C6_Witness ==
    /\ FatalRaised
    /\ Len(batch) = 2
    /\ idx = 1
    /\ requests[batch[2]].status = "draft"

(* C7: with the API key or the assistant ID missing, a call on a non-empty *)
(* batch raises the configuration error at the first record: no record has *)
(* changed, no log row was created, no HTTP request was made.              *)
C7_NotConfiguredFailsFast ==
    (config.api_key = "" \/ config.assistant_id = "") =>
        /\ pc \in {"idle", "loop", "raised"}
        /\ pc \in {"loop", "raised"} =>
              /\ idx = 1
              /\ requests = snap.requests
              /\ db_requests = snap.requests
              /\ logs = snap.logs
              /\ db_logs = snap.logs
              /\ http = <<>>
        /\ pc = "raised" => outcome = NotConfigured /\ batch # <<>>

C7_Witness ==
    /\ pc = "raised"
    /\ outcome = NotConfigured
    /\ config.api_key # ""
    /\ config.assistant_id = ""
    /\ Len(batch) = 2

C9_SleepsK ==
    (pc = "messages" /\ run_status = "completed") =>
        /\ sleeps = nonterminal
        /\ waited = 3 * nonterminal

(* C9 amended: when the statuses were k non-terminal ones and then         *)
(* `completed` (k at most 19), the client has slept exactly k + 1 times, 3 *)
(* units each, when it fetches the messages: 3 times, 9 units, for         *)
(* in_progress, in_progress, completed.                                    *)
C9_SleepsKPlusOne ==
    (pc = "messages" /\ run_status = "completed") =>
        /\ nonterminal <= 19
        /\ polls = nonterminal + 1
        /\ sleeps = nonterminal + 1
        /\ waited = 3 * (nonterminal + 1)

C9_Witness ==
    /\ pc = "messages"
    /\ run_status = "completed"
    /\ nonterminal = 2
    /\ sleeps = 3
    /\ waited = 9

(* C10: the poll loop makes at most 20 status requests: before each one    *)
(* fewer than 20 were made.  Its timeout error says 60 seconds, and when   *)
(* action_send_now has raised it, the attempt has created one log row, a   *)
(* failed one with the timeout as message, and no success row.             *)
C10_PollTimeout ==
    /\ pc = "poll" => /\ polls <= 19
                      /\ nonterminal = polls
                      /\ waited = 3 * polls
    /\ polls <= 20 /\ waited <= 60
    /\ error_msg \in TimeoutMsgs => error_msg = "Assistant run timeout after 60 seconds"
    /\ (FatalRaised /\ error_msg \in TimeoutMsgs) =>
          /\ requests[record].status = "failed"
          /\ Len(logs) = Len(db_logs) + 1
          /\ logs[Len(logs)].status = "failed"
          /\ logs[Len(logs)].request_id = record
          /\ logs[Len(logs)].message = error_msg

C10_Witness ==
    /\ FatalRaised
    /\ error_msg = "Assistant run timeout after 60 seconds"
    /\ logs[Len(logs)].status = "failed"

(* A text with no "{" that has a "}" somewhere after it *)
NoBraceSpan(text) == ~\E i, j \in 1..Len(text) : i < j /\ text[i] = "{" /\ text[j] = "}"

(* The texts without braces that are JSON as they stand *)
BareJson == {<<"7">>}

ParseErrorNote == " | JSON parse error: No JSON object found in response"

(* C11 as stated: for every reply text without a {...} span the attempt    *)
(* ends with status success and a success log row whose profile name is    *)
(* empty and whose message contains the JSON parse-error annotation.       *)
C11_NoBraceAnnotated ==
    [][ /\ (pc = "webhook" /\ NoBraceSpan(response_text)) => pc' = "finish"
        /\ (pc = "finish" /\ NoBraceSpan(response_text)) =>
              /\ pc' = "loop"
              /\ requests'[record].status = "success"
              /\ Len(logs') = Len(logs) + 1
              /\ logs'[Len(logs')].status = "success"
              /\ logs'[Len(logs')].profile_name = ""
              /\ logs'[Len(logs')].message = status_msg \o ParseErrorNote ]_vars

(* C11 amended: for every reply text without a {...} span the attempt ends *)
(* with status success and a success log row whose profile name is empty;  *)
(* the message ends with the JSON parse-error annotation unless the text   *)
(* is JSON as it stands (the number 7), and then the message has no        *)
(* annotation.                                                             *)
C11_NoBraceAnnotatedUnlessJson ==
    [][ /\ (pc = "webhook" /\ NoBraceSpan(response_text)) =>
              /\ pc' = "finish"
              /\ http' = http
              /\ status_msg' = "OK"
        /\ (pc = "finish" /\ NoBraceSpan(response_text)) =>
              /\ pc' = "loop"
              /\ requests'[record].status = "success"
              /\ requests'[record].last_profile_name = ""
              /\ Len(logs') = Len(logs) + 1
              /\ logs'[Len(logs')].status = "success"
              /\ logs'[Len(logs')].request_id = record
              /\ logs'[Len(logs')].profile_name = ""
              /\ logs'[Len(logs')].response_json = response_text
              /\ logs'[Len(logs')].message =
                    IF response_text \in BareJson
                    THEN status_msg
                    ELSE status_msg \o ParseErrorNote ]_vars

C11_Witness ==
    /\ pc = "loop"
    /\ idx = 2
    /\ requests[1].status = "success"
    /\ logs[Len(logs)].response_json = <<"}", "{">>
    /\ logs[Len(logs)].profile_name = ""
    /\ logs[Len(logs)].message = "OK | JSON parse error: No JSON object found in response"

WebhookFailureNotes == {" | Webhook Failed (500)", " | Webhook Error: Connection refused"}

(* C12: when the webhook call of a send attempt has failed (an answer      *)
(* other than 200, or an exception), the attempt does not reach the        *)
(* failure handler: it ends with status success and a success log row      *)
(* whose message ends with the webhook failure fragment and whose          *)
(* response_json is the reply text.                                        *)
C12_WebhookFailureNotFatal ==
    wh_resp \in {"500", "exception"} =>
        /\ pc \in {"finish", "loop"}
        /\ pc = "loop" =>
              /\ requests[batch[idx - 1]].status = "success"
              /\ logs[Len(logs)].request_id = batch[idx - 1]
              /\ logs[Len(logs)].status = "success"
              /\ logs[Len(logs)].response_json = response_text
              /\ \E note \in WebhookFailureNotes :
                    logs[Len(logs)].message = reply_status_msg(response_text) \o note

(* C13: the step that ends a send attempt finds the record at status       *)
(* `sending` and leaves it at success or failed, and when the call is over *)
(* (it returned, or it raised the fatal error) no record it has attempted  *)
(* is stored with status `sending`.                                        *)
C13_ThroughSending ==
    [][ /\ EndsAttempt =>
              /\ requests[record].status = "sending"
              /\ requests'[record].status \in {"success", "failed"}
        /\ (pc = "loop" /\ pc' = "idle") =>
              \A j \in 1..Len(batch) : db_requests'[batch[j]].status # "sending"
        /\ (FatalRaised /\ pc' = "idle") =>
              \A j \in 1..idx : db_requests'[batch[j]].status # "sending" ]_vars

(* C14: the step that ends a send attempt leaves the three last-result     *)
(* fields with values of this attempt: last_sent_at its time,              *)
(* last_response_status its status message or error, last_profile_name     *)
(* the profile name of its log row (or, for a failed attempt, no name).    *)
C14_LastResultOverwritten ==
    [][ EndsAttempt =>
          LET row == logs'[Len(logs')]
              rec == requests'[record]
          IN  /\ rec.last_sent_at = now
              /\ rec.last_response_status =
                    CASE pc = "finish" -> status_msg
                      [] pc = "except" -> error_msg
                      [] OTHER -> "Duplication: URL already processed."
              /\ \/ rec.last_profile_name = row.profile_name
                 \/ row.status = "failed" /\ rec.last_profile_name = "" ]_vars

(* How a call of action_test_connection can fail *)
TestFailures ==
    {KeyMissing, IdMissing} \cup UNION {TestErrors(resp) : resp \in TestResponses \ {"200"}}

(* C15: action_test_connection leaves the stored configuration as it is    *)
(* when it raises for a missing key or assistant ID and when it sends the  *)
(* metadata request; the answer either ends the call with the success      *)
(* notification and the stored key, assistant ID, model and base URL those *)
(* of the form (a blank model or base URL stored as its default), or ends  *)
(* it with an error and the stored configuration unchanged.                *)
C15_TestThenCommit ==
    [][ /\ (pc = "idle" /\ outcome' \in {KeyMissing, IdMissing}) =>
              /\ pc' = "idle"
              /\ config' = config
              /\ http' = <<>>
        /\ (pc = "idle" /\ pc' = "test") =>
              /\ config' = config
              /\ settings'.assistant_openai_api_key # ""
              /\ settings'.assistant_id # ""
              /\ Len(http') = 1
        /\ pc = "test" =>
              /\ pc' = "idle"
              /\ \/ /\ outcome' = Connected
                    /\ config'.api_key = settings.assistant_openai_api_key
                    /\ config'.assistant_id = settings.assistant_id
                    /\ config'.assistant_model =
                          IF settings.assistant_model = "" THEN "gpt-5.1"
                          ELSE settings.assistant_model
                    /\ config'.assistant_api_base =
                          IF settings.assistant_api_base = ""
                          THEN "https://api.openai.com/v1"
                          ELSE settings.assistant_api_base
                    /\ config'.webhook_url = config.webhook_url
                 \/ /\ outcome' \in TestFailures
                    /\ config' = config ]_vars

C15_Witness ==
    /\ pc = "idle"
    /\ outcome = Connected
    /\ config.api_key = "sk-key"
    /\ config.assistant_id = "asst_1"
    /\ config.assistant_model = "gpt-4o"
    /\ config.assistant_api_base = "https://proxy/v1"

(* The requests of one run of the client, in the order of the code *)
ClientRequests(img) ==
    (IF img THEN <<"POST /files">> ELSE <<>>)
        \o <<"POST /threads", "POST /runs", "GET /runs", "GET /messages">>

(* The requests the client has issued for the current record *)
ClientTrace == SelectSeq(http, LAMBDA q : q # "GET webhook")

(* The requests issued so far are the first ones of the fixed order, each  *)
(* once, and as many as the position of the run says.                      *)
RequestsInOrder ==
    (pc \in AttemptPcs \/ FatalRaised) =>
        LET full == ClientRequests(requests[record].profile_image)
            n == Len(full)
        IN  /\ Len(ClientTrace) <= n
            /\ ClientTrace = SubSeq(full, 1, Len(ClientTrace))
            /\ pc = "upload" => ClientTrace = <<>>
            /\ pc = "thread" => Len(ClientTrace) = n - 4
            /\ pc = "run" => Len(ClientTrace) = n - 3
            /\ pc = "poll" => Len(ClientTrace) = (IF polls = 0 THEN n - 2 ELSE n - 1)
            /\ pc = "messages" => Len(ClientTrace) = n - 1 /\ polls >= 1
            /\ pc \in {"webhook", "finish"} => ClientTrace = full

(* C16: the requests of a client run are issued in the order image upload  *)
(* (when there is an image), thread creation, run start, status polls,     *)
(* message fetch, each after the one before has succeeded and each but the *)
(* status poll once; after a step has failed no request is issued.         *)
C16_RequestOrder ==
    [][ /\ RequestsInOrder'
        /\ pc \in {"except", "raised"} => (http' = http \/ http' = <<>>) ]_vars

C16_Witness ==
    /\ pc = "webhook"
    /\ requests[record].profile_image
    /\ http = <<"POST /files", "POST /threads", "POST /runs", "GET /runs", "GET /messages">>

(* C17: at every poll, the one that takes the wait to 60 included, the     *)
(* status failed, cancelled or expired ends the run with the error that    *)
(* names the status, and no poll and no message fetch follows; the status  *)
(* completed or requires_action ends the polling without an error, and the *)
(* next request is the message fetch.                                      *)
C17_TerminalStatusAtEveryPoll ==
    [][ /\ pc = "poll" =>
              /\ waited <= 57
              /\ run_status' \in {"failed", "cancelled", "expired"} =>
                    /\ pc' = "except"
                    /\ error_msg' = "Assistant run ended with status: " \o run_status'
              /\ run_status' \in {"completed", "requires_action"} =>
                    /\ pc' = "messages"
                    /\ error_msg' = ""
                    /\ waited' = waited + 3
        /\ pc = "except" =>
              /\ pc' = "raised"
              /\ http' = http
        /\ pc = "messages" =>
              /\ http' = Append(http, "GET /messages")
              /\ pc' \in {"webhook", "except"}
              /\ polls' = 0 ]_vars

C17_Witness ==
    /\ pc = "messages"
    /\ run_status = "requires_action"
    /\ polls = 20
    /\ waited = 60

(* The positions of the text parts of a message, of the assistant messages *)
(* of a list, and of the assistant messages that have a text part.         *)
TextParts(m) == {i \in 1..Len(m.content) : m.content[i].type = "text"}
Assistants(msgs) == {k \in 1..Len(msgs) : msgs[k].role = "assistant"}
AssistantsWithText(msgs) == {k \in Assistants(msgs) : TextParts(msgs[k]) # {}}

Least(S) == CHOOSE i \in S : \A j \in S : i <= j

(* The value of the first text part of the first message of a set of       *)
(* positions; the empty text when the set is empty or the message has no   *)
(* text part.                                                              *)
FirstTextAt(msgs, S) ==
    IF S = {} THEN <<>>
    ELSE IF TextParts(msgs[Least(S)]) = {} THEN <<>>
         ELSE msgs[Least(S)].content[Least(TextParts(msgs[Least(S)]))].value

FetchFailed == "Failed to fetch Assistant messages. HTTP 500"

WebhookGets == Len(SelectSeq(http, LAMBDA q : q = "GET webhook"))

(* C19 as stated: when the client has returned a reply and a webhook URL   *)
(* is configured, exactly one webhook GET has been issued before the       *)
(* success log row is written, whatever the reply text; none has been      *)
(* issued before the reply, on the duplicate path or on a fatal-error      *)
(* path.                                                                   *)
C19_WebhookWheneverConfigured ==
    /\ (pc = "finish" /\ config.webhook_url # "") =>
          /\ WebhookGets = 1
          /\ http[Len(http)] = "GET webhook"
    /\ pc \in AttemptPcs \ {"finish"} => WebhookGets = 0
    /\ FatalRaised => WebhookGets = 0

(* C19 amended: the webhook GET is issued only by the step that follows    *)
(* the parsing of a returned reply, once, when a webhook URL is configured *)
(* and the reply yields a JSON object, and before the log row of the       *)
(* attempt is written; for a reply that yields no JSON object none is      *)
(* issued, and none on the duplicate path or when the client has raised.   *)
C19_WebhookForObjectReply ==
    [][ /\ pc = "webhook" =>
              /\ pc' \in {"finish", "except"}
              /\ logs' = logs
              /\ IF is_dict(response_text) /\ config.webhook_url # ""
                 THEN http' = Append(http, "GET webhook")
                 ELSE http' = http /\ pc' = "finish"
        /\ pc # "webhook" => (WebhookGets' = WebhookGets \/ http' = <<>>)
        /\ pc \in {"upload", "thread", "run", "poll", "messages", "webhook"} =>
              WebhookGets = 0
        /\ WebhookGets' <= 1
        /\ pc = "finish" =>
              /\ http' = http
              /\ Len(logs') = Len(logs) + 1
        /\ (pc = "loop" /\ Len(logs') = Len(logs) + 1) => http' = <<>> ]_vars

C19_Witness ==
    /\ pc = "finish"
    /\ wh_resp = "200"
    /\ response_text = <<"w", "{", "display_name:Acme", "status:ok", "}", "w">>
    /\ WebhookGets = 1
    /\ http[Len(http)] = "GET webhook"
    /\ status_msg = "ok | Webhook Sent"

(* The newest log row of a request: the one with the greatest id; 0 when   *)
(* the request has none.                                                   *)
NewestLog(ls, r) ==
    LET rows == {i \in 1..Len(ls) : ls[i].request_id = r}
    IN  IF rows = {} THEN 0 ELSE CHOOSE i \in rows : \A j \in rows : j <= i

(* C20: a request whose status is success or failed has log rows and the   *)
(* newest of them has that status, in what the running call sees and in    *)
(* what is committed; and a record the running call has finished with (it  *)
(* went on to the next, or raised the fatal error) has status success or   *)
(* failed, the status of the row this call has created for it.             *)
C20_StatusMatchesLog ==
    /\ \A r \in 1..Len(requests) :
          requests[r].status \in {"success", "failed"} =>
              /\ NewestLog(logs, r) # 0
              /\ logs[NewestLog(logs, r)].status = requests[r].status
    /\ \A r \in 1..Len(db_requests) :
          db_requests[r].status \in {"success", "failed"} =>
              /\ NewestLog(db_logs, r) # 0
              /\ db_logs[NewestLog(db_logs, r)].status = db_requests[r].status
    /\ \A j \in 1..Len(batch) :
          (j < idx \/ (j = idx /\ FatalRaised)) =>
              /\ requests[batch[j]].status \in {"success", "failed"}
              /\ NewestLog(logs, batch[j]) > Len(snap.logs)
              /\ logs[NewestLog(logs, batch[j])].status = requests[batch[j]].status

C20_Witness ==
    /\ pc = "loop"
    /\ Len(batch) = 2
    /\ idx = 3
    /\ requests[batch[1]].status = "success"
    /\ logs[NewestLog(logs, batch[1])].status = "success"
    /\ requests[batch[2]].status = "failed"
    /\ logs[NewestLog(logs, batch[2])].status = "failed"

(* The message of the log row of a duplicate (line 123) that cites r *)
DuplicateNote(r) == "Duplicate found. Previously processed request ID " \o str(r)

(* ls holds a success row of request r that carries url *)
OwnSuccess(ls, r, url) ==
    \E i \in 1..Len(ls) : /\ ls[i].status = "success"
                          /\ ls[i].request_id = r
                          /\ ls[i].profile_url = url

(* The loop is at a record with a URL that a success row of the same      *)
(* record carries, and the configuration is complete.                      *)
AtOwnDuplicate ==
    /\ pc = "loop"
    /\ idx <= Len(batch)
    /\ ~not_configured(config)
    /\ requests[record].profile_url # ""
    /\ OwnSuccess(logs, record, requests[record].profile_url)

(* The attempt ends at once: status failed, one more log row, which is a  *)
(* failed row of the record, no HTTP request, the loop at the next record. *)
SkippedAsDuplicate ==
    /\ pc' = "loop"
    /\ idx' = idx + 1
    /\ http' = <<>>
    /\ requests'[record].status = "failed"
    /\ Len(logs') = Len(logs) + 1
    /\ SubSeq(logs', 1, Len(logs)) = logs
    /\ logs'[Len(logs')].request_id = record
    /\ logs'[Len(logs')].status = "failed"

(* C21 as stated: once a request with a non-empty URL has a success log   *)
(* row of its own for that URL, every later send attempt on it (the        *)
(* configuration complete) ends with status failed, no assistant call and  *)
(* a duplicate log row that cites the request's own id.                    *)
C21_OwnIdCited ==
    [][ AtOwnDuplicate
        => /\ SkippedAsDuplicate
           /\ logs'[Len(logs')].message = DuplicateNote(record) ]_vars

(* C21, amended: such an attempt ends with status failed, no assistant    *)
(* call and a duplicate log row that cites the request of the newest       *)
(* success row carrying the URL; that is the request's own id when no      *)
(* other request has a success row with the URL after the request's own.   *)
C21_NewestSuccessCited ==
    [][ AtOwnDuplicate
        => /\ SkippedAsDuplicate
           /\ \E k \in 1..Len(logs) :
                 /\ logs[k].status = "success"
                 /\ logs[k].profile_url = requests[record].profile_url
                 /\ \A j \in (k + 1)..Len(logs) :
                       ~(/\ logs[j].status = "success"
                         /\ logs[j].profile_url = requests[record].profile_url)
                 /\ logs'[Len(logs')].message = DuplicateNote(logs[k].request_id)
                 /\ logs[k].request_id = record
                       => logs'[Len(logs')].message = DuplicateNote(record) ]_vars

(* Request 1 succeeded with its own URL, request 2 (no URL of its own)    *)
(* then got a success row with the same URL from the reply, and the next   *)
(* attempt on request 1 was skipped with a row that cites request 2.       *)
C21_Witness ==
    \E i, k, j \in 1..Len(logs) :
        /\ i < k /\ k < j
        /\ logs[i].status = "success" /\ logs[i].request_id = 1
        /\ logs[i].profile_url = requests[1].profile_url
        /\ logs[k].status = "success" /\ logs[k].request_id = 2
        /\ logs[k].profile_url = requests[1].profile_url
        /\ logs[j].status = "failed" /\ logs[j].request_id = 1
        /\ logs[j].message = DuplicateNote(2)
        /\ requests[1].status = "failed"
        /\ requests[1].profile_url # ""

(* Two success rows of ls carry the same non-empty URL *)
SuccessUrlRepeated(ls) ==
    \E i, j \in 1..Len(ls) :
        /\ i < j
        /\ ls[i].status = "success" /\ ls[j].status = "success"
        /\ ls[i].profile_url # ""
        /\ ls[i].profile_url = ls[j].profile_url

(* C22 as stated: no two success log rows carry the same non-empty        *)
(* profile_url, in the rows the call sees and in the committed rows.       *)
C22_SuccessUrlsUnique == ~SuccessUrlRepeated(logs) /\ ~SuccessUrlRepeated(db_logs)

(* C22, amended: the success row written for a request that has a URL of  *)
(* its own carries that URL, and no earlier success row carries it; a      *)
(* success row that repeats the URL of an earlier success row belongs to   *)
(* a request without a URL of its own and has the URL from the reply.      *)
C22_OwnUrlSuccessOnce ==
    [][ (pc = "finish" /\ pc' = "loop")
        => LET url == requests[record].profile_url
               row == logs'[Len(logs')]
               repeats == \E i \in 1..Len(logs) : /\ logs[i].status = "success"
                                                  /\ logs[i].profile_url = row.profile_url
           IN  /\ Len(logs') = Len(logs) + 1
               /\ SubSeq(logs', 1, Len(logs)) = logs
               /\ row.status = "success"
               /\ row.request_id = record
               /\ url # "" => (row.profile_url = url /\ ~repeats)
               /\ (row.profile_url # "" /\ repeats)
                     => /\ url = ""
                        /\ row.profile_url =
                              dict_get(parse_reply(response_text).parsed_json, "profile_url")
      ]_vars

(* Request 1 was recorded with its own URL, and request 2, which has no   *)
(* URL of its own, was then recorded with the same URL, taken from the     *)
(* reply; both rows are committed.                                         *)
C22_Witness ==
    /\ pc = "idle"
    /\ \E i, j \in 1..Len(db_logs) :
          /\ i < j
          /\ db_logs[i].status = "success" /\ db_logs[i].request_id = 1
          /\ db_logs[i].profile_url = "u1"
          /\ db_requests[1].profile_url = "u1"
          /\ db_logs[j].status = "success" /\ db_logs[j].request_id = 2
          /\ db_logs[j].profile_url = "u1"
          /\ db_logs[j].response_json = UrlText
          /\ db_requests[2].profile_url = ""
          /\ db_requests[1].status = "success" /\ db_requests[2].status = "success"

(* Requests r1 and r2 both ended with status success and a success row    *)
(* carrying url, in the committed rows.                                    *)
BothSucceeded(r1, r2, url) ==
    /\ db_requests[r1].profile_url = url /\ db_requests[r2].profile_url = url
    /\ db_requests[r1].status = "success" /\ db_requests[r2].status = "success"
    /\ OwnSuccess(db_logs, r1, url)
    /\ OwnSuccess(db_logs, r2, url)

(* C23: of two action_send_now calls for two different requests with the  *)
(* same profile URL, however they interleave, at most one ends with        *)
(* status success and a success log row.                                   *)
C23_AtMostOneSuccess ==
    \A r1, r2 \in 1..Len(db_requests) :
        (r1 # r2 /\ db_requests[r1].profile_url # "")
            => ~BothSucceeded(r1, r2, db_requests[r1].profile_url)

====
